---- MODULE Spec2Model ----
(***************************************************************************)
(* Model of live_music_history/update_recent_history.py: one run of        *)
(* publish_history against a spreadsheet record (cell A3 and the body      *)
(* A5:D) and a Drive folder of .m3u files.  Every external call is one     *)
(* step; the calls of kaiano_common_utils are the environment.             *)
(***************************************************************************)
EXTENDS Integers, Sequences, FiniteSets, TLC

VARIABLES
    pc,            \* position in publish_history / write_entries_to_sheet
    a3,            \* record: cell A3, the last-run audit timestamp
    body,          \* record: rows of A5:D, each <<A, B, C, D>>, "" = empty cell
    body0,         \* the body as it was when the run started
    now,           \* log.format_date(now) of this run
    cfg_max,       \* config.HISTORY_MAX_SONGS
    m3u_files,     \* publish_history: m3u_files, sorted newest first
    idx,           \* number of files the for loop has taken
    existing_data, \* publish_history: existing_data
    new_entries,   \* publish_history: new_entries
    seen_keys,     \* publish_history: seen_keys
    entries,       \* the list handed to write_entries_to_sheet
    unread,        \* what the parser would return for the files the loop never took
    calls,         \* external calls issued so far, in order
    raised,        \* the call or step whose exception left publish_history
    swallowed,     \* failures caught inside the run, in order
    run,           \* 1 in a first run or call, 2 in the one that follows it
    body1,         \* the body as the first run or call left it
    source,        \* file id -> the rows of the file, where the files are fixed
    pc2,           \* position of a second, concurrent write_entries_to_sheet
    entries2       \* the list handed to the concurrent write_entries_to_sheet

vars == <<pc, a3, body, body0, now, cfg_max, m3u_files, idx, existing_data,
          new_entries, seen_keys, entries, unread, calls, raised, swallowed,
          run, body1, source, pc2, entries2>>

\* what a step of one run leaves alone: the bookkeeping of a following run
\* and the concurrent writer
others == <<run, body1, source, pc2, entries2>>

----------------------------------------------------------------------------
(* Bounds of the model *)

MaxBody == 2      \* rows in the body when the run starts
MaxFiles == 2     \* .m3u files Drive may list

----------------------------------------------------------------------------
(* Strings are TLA+ strings; Char(s, i) is a one-character string *)

Char(s, i) == SubSeq(s, i, i)

Min(a, b) == IF a < b THEN a ELSE b

DigitChars == "0123456789"

Digits == {Char(DigitChars, i) : i \in 1..10}

IsDigit(c) == c \in Digits

DigitValues == [c \in Digits |-> (CHOOSE i \in 1..10 : Char(DigitChars, i) = c) - 1]

DigitVal(c) == DigitValues[c]

AllDigits(s) == \A i \in 1..Len(s) : IsDigit(Char(s, i))

RECURSIVE NumVal(_)
NumVal(s) ==
    IF Len(s) = 0 THEN 0
    ELSE 10 * NumVal(SubSeq(s, 1, Len(s) - 1)) + DigitVal(Char(s, Len(s)))

IsLeap(y) == (y % 4 = 0 /\ y % 100 # 0) \/ y % 400 = 0

DaysIn(y, m) ==
    IF m = 2 THEN (IF IsLeap(y) THEN 29 ELSE 28)
    ELSE IF m \in {4, 6, 9, 11} THEN 30 ELSE 31

\* A datetime as a number that orders as datetime orders (years below 4000).
DtKey(y, m, d, h, mi) == (((y * 12 + (m - 1)) * 31 + (d - 1)) * 24 + h) * 60 + mi

NoDt == -1

\* datetime.datetime.min = 0001-01-01 00:00
DatetimeMin == DtKey(1, 1, 1, 0, 0)

\* datetime.strptime(value, "%Y-%m-%d %H:%M"), None on any exception.  The
\* zero-padded form is modelled: four digits, two for each other field.
ParseEntryDt(value) ==
    IF Len(value) # 16 THEN NoDt
    ELSE
      LET ys == SubSeq(value, 1, 4)   ms == SubSeq(value, 6, 7)
          ds == SubSeq(value, 9, 10)  hs == SubSeq(value, 12, 13)
          ns == SubSeq(value, 15, 16)
      IN IF ~(/\ Char(value, 5) = "-" /\ Char(value, 8) = "-"
              /\ Char(value, 11) = " " /\ Char(value, 14) = ":"
              /\ AllDigits(ys) /\ AllDigits(ms) /\ AllDigits(ds)
              /\ AllDigits(hs) /\ AllDigits(ns))
         THEN NoDt
         ELSE LET y == NumVal(ys) m == NumVal(ms) d == NumVal(ds)
                  h == NumVal(hs) mi == NumVal(ns)
              IN IF /\ y >= 1 /\ m \in 1..12 /\ d >= 1 /\ d <= DaysIn(y, m)
                    /\ h <= 23 /\ mi <= 59
                 THEN DtKey(y, m, d, h, mi)
                 ELSE NoDt

----------------------------------------------------------------------------
(* Dedupe keys *)

IsSpace(c) == c \in {" ", "\t", "\n", "\r"}

RECURSIVE LStrip(_)
LStrip(s) ==
    IF Len(s) > 0 /\ IsSpace(Char(s, 1)) THEN LStrip(SubSeq(s, 2, Len(s))) ELSE s

RECURSIVE RStrip(_)
RStrip(s) ==
    IF Len(s) > 0 /\ IsSpace(Char(s, Len(s)))
    THEN RStrip(SubSeq(s, 1, Len(s) - 1)) ELSE s

\* google_sheets.normalize_cell: trims surrounding whitespace
NormalizeCell(c) == LStrip(RStrip(c))

UpperChars == "ABCDEFGHIJKLMNOPQRSTUVWXYZ"
LowerChars == "abcdefghijklmnopqrstuvwxyz"

FoldChar(c) ==
    IF \E i \in 1..26 : Char(UpperChars, i) = c
    THEN Char(LowerChars, CHOOSE i \in 1..26 : Char(UpperChars, i) = c)
    ELSE c

\* str.casefold on ASCII text
RECURSIVE Casefold(_)
Casefold(s) ==
    IF Len(s) = 0 THEN ""
    ELSE FoldChar(Char(s, 1)) \o Casefold(SubSeq(s, 2, Len(s)))

\* row[:3]
Take3(row) == SubSeq(row, 1, Min(3, Len(row)))

RECURSIVE Join(_, _)
Join(sep, parts) ==
    IF Len(parts) = 0 THEN ""
    ELSE IF Len(parts) = 1 THEN parts[1]
    ELSE parts[1] \o sep \o Join(sep, Tail(parts))

\* mutant of build_dedup_key: the cells are trimmed but not case folded
build_dedup_key_cased(row) ==
    Join("||", [i \in 1..Len(Take3(row)) |-> NormalizeCell(row[i])])

build_dedup_key(row) ==
    Join("||", [i \in 1..Len(Take3(row)) |-> Casefold(NormalizeCell(row[i]))])

build_dedup_keys(rows) == {build_dedup_key(rows[i]) : i \in 1..Len(rows)}

----------------------------------------------------------------------------
(* Ordering *)

\* characters of the modelled texts, in code point order
Alphabet == " +-.0123456789:ABCDEFGHIJKLMNOPQRSTUVWXYZ_abcdefghijklmnopqrstuvwxyz|"

CharOrd(c) == CHOOSE i \in 1..Len(Alphabet) : Char(Alphabet, i) = c

\* Python's str < str
RECURSIVE StrLess(_, _)
StrLess(s, t) ==
    IF Len(t) = 0 THEN FALSE
    ELSE IF Len(s) = 0 THEN TRUE
    ELSE IF Char(s, 1) # Char(t, 1) THEN CharOrd(Char(s, 1)) < CharOrd(Char(t, 1))
    ELSE StrLess(SubSeq(s, 2, Len(s)), SubSeq(t, 2, Len(t)))

\* one step of a stable sort, largest key first: x goes after every element
\* that is not smaller than it
RECURSIVE InsertByNameDesc(_, _)
InsertByNameDesc(sorted, f) ==
    IF Len(sorted) = 0 THEN <<f>>
    ELSE IF StrLess(Head(sorted).name, f.name) THEN <<f>> \o sorted
    ELSE <<Head(sorted)>> \o InsertByNameDesc(Tail(sorted), f)

\* sorted(files, key=lambda f: f.get("name", ""), reverse=True)
RECURSIVE SortFilesNewestFirst(_)
SortFilesNewestFirst(files) ==
    IF Len(files) = 0 THEN <<>>
    ELSE InsertByNameDesc(SortFilesNewestFirst(SubSeq(files, 1, Len(files) - 1)),
                          files[Len(files)])

\* mutant of SortKey: an unparseable timestamp sorts as the newest value
SortKeyUnparsedNewest(r) ==
    IF ParseEntryDt(r[1]) = NoDt THEN DtKey(3999, 12, 31, 23, 59) ELSE ParseEntryDt(r[1])

\* key=lambda r: _parse_entry_dt(r[0]) or datetime.datetime.min
SortKey(r) == IF ParseEntryDt(r[1]) = NoDt THEN DatetimeMin ELSE ParseEntryDt(r[1])

RECURSIVE InsertNewestFirst(_, _)
InsertNewestFirst(sorted, r) ==
    IF Len(sorted) = 0 THEN <<r>>
    ELSE IF SortKey(Head(sorted)) < SortKey(r) THEN <<r>> \o sorted
    ELSE <<Head(sorted)>> \o InsertNewestFirst(Tail(sorted), r)

\* combined.sort(key=..., reverse=True): stable, newest first
RECURSIVE SortNewestFirst(_)
SortNewestFirst(rows) ==
    IF Len(rows) = 0 THEN <<>>
    ELSE InsertNewestFirst(SortNewestFirst(SubSeq(rows, 1, Len(rows) - 1)),
                           rows[Len(rows)])

\* mutant of Cap: the slice ends one row early
CapOffByOne(rows, n) == SubSeq(rows, 1, Min(n - 1, Len(rows)))

\* combined[:max_songs]
Cap(rows, n) == SubSeq(rows, 1, Min(n, Len(rows)))

----------------------------------------------------------------------------
(* Configuration *)

NO_HISTORY == "No_recent_history_found_"

DefaultMaxSongs == 200

\* values of config.HISTORY_MAX_SONGS: unset or zero, and small caps
CfgMaxChoices == {0, 1, 2}

\* max_songs = int(getattr(config, "HISTORY_MAX_SONGS", 200) or 200);
\* if max_songs < 1: max_songs = 200
MaxSongs(cfg) ==
    LET m == IF cfg = 0 THEN DefaultMaxSongs ELSE cfg
    IN IF m < 1 THEN DefaultMaxSongs ELSE m

max_songs == MaxSongs(cfg_max)

----------------------------------------------------------------------------
(* The record store: the body A5:D as a grid of rows <<A, B, C, D>> *)

Max(a, b) == IF a > b THEN a ELSE b

EmptyRow == <<"", "", "", "">>

RowAt(b, i) == IF i <= Len(b) THEN b[i] ELSE EmptyRow

\* sheets_update_values(range starting at column col of row 5, values, RAW):
\* each values row sets as many cells as it has, from column col rightwards
UpdateValues(b, col, values) ==
    [i \in 1..Max(Len(b), Len(values)) |->
        IF i <= Len(values)
        THEN [j \in 1..4 |->
                IF j >= col /\ j < col + Len(values[i])
                THEN values[i][j - col + 1] ELSE RowAt(b, i)[j]]
        ELSE b[i]]

RECURSIVE TrimTrailingEmpty(_)
TrimTrailingEmpty(cells) ==
    IF Len(cells) > 0 /\ cells[Len(cells)] = ""
    THEN TrimTrailingEmpty(SubSeq(cells, 1, Len(cells) - 1)) ELSE cells

RECURSIVE TrimTrailingRows(_)
TrimTrailingRows(rows) ==
    IF Len(rows) > 0 /\ rows[Len(rows)] = <<>>
    THEN TrimTrailingRows(SubSeq(rows, 1, Len(rows) - 1)) ELSE rows

\* sheets_get_values(A5:C): the rows down to the last one that holds a value,
\* each without its trailing empty cells
GetValues(b) ==
    TrimTrailingRows([i \in 1..Len(b) |-> TrimTrailingEmpty(SubSeq(b[i], 1, 3))])

\* mutant of KeepsRow: the timestamp is not parsed
KeepsRowUnparsed(row) ==
    /\ Len(row) >= 2
    /\ row[2] # NO_HISTORY

\* the loop of read_existing_entries over one row
KeepsRow(row) ==
    /\ Len(row) >= 2
    /\ row[2] # NO_HISTORY
    /\ ParseEntryDt(row[1]) # NoDt

RECURSIVE FilterExisting(_)
FilterExisting(values) ==
    IF Len(values) = 0 THEN <<>>
    ELSE IF KeepsRow(Head(values))
         THEN <<Take3(Head(values))>> \o FilterExisting(Tail(values))
         ELSE FilterExisting(Tail(values))

\* combined = [row[:3] for row in existing_data]
combined == [i \in 1..Len(existing_data) |-> Take3(existing_data[i])]

----------------------------------------------------------------------------
(* Links *)

\* urllib.parse.quote_plus on the modelled characters
QuoteChar(c) ==
    IF c = " " THEN "+"
    ELSE IF c = "|" THEN "%7C"
    ELSE IF c = ":" THEN "%3A"
    ELSE IF c = "+" THEN "%2B"
    ELSE c

RECURSIVE QuotePlus(_)
QuotePlus(s) ==
    IF Len(s) = 0 THEN ""
    ELSE QuoteChar(Char(s, 1)) \o QuotePlus(SubSeq(s, 2, Len(s)))

\* urlencode({"search_query": f"{title} {artist}"}) behind the search URL
YoutubeLink(title, artist) ==
    "https://www.youtube.com/results?search_query=" \o QuotePlus(title \o " " \o artist)

\* for _, title, artist in entries: unpacking needs exactly three fields
LinksBuildable(es) == \A i \in 1..Len(es) : Len(es[i]) = 3

\* mutant of build_youtube_links: the row is unpacked as title, artist, _
build_youtube_links_shifted(es) ==
    [i \in 1..Len(es) |-> <<YoutubeLink(es[i][1], es[i][2])>>]

build_youtube_links(es) == [i \in 1..Len(es) |-> <<YoutubeLink(es[i][2], es[i][3])>>]

----------------------------------------------------------------------------
(* The environment: what the record holds and what Drive and the parser return *)

\* rows the body may hold when the run starts
BodyRows ==
    { <<"2025-01-02 10:00", "A", "X", "old">>,
      <<"2025-01-01 09:30", "Q", "", "">>,
      <<"2025-01-01 09:00", NO_HISTORY, "", "">>,
      <<"today", "C", "Z", "">> }

RECURSIVE SeqsUpTo(_, _)
SeqsUpTo(S, n) ==
    IF n = 0 THEN {<<>>}
    ELSE LET shorter == SeqsUpTo(S, n - 1)
         IN shorter \cup {Append(q, x) : q \in shorter, x \in S}

\* what parse_m3u_lines may return for one file; it is handed seen_keys and
\* may or may not leave out the rows whose key is in it
Batches ==
    { <<>>,
      << <<"2025-01-03 10:00", "B", "Y">> >>,
      << <<"", "D", "W", "extra">> >>,
      << <<>> >>,
      << <<"2025-01-03 10:00", "B", "Y">>, <<"2025-01-02 10:00", "A", "X">>,
         <<"2025-01-02 10:00", " a", "x">> >> }

\* the i-th file of the folder; names are date-stamped
M3uFile(i) == [id |-> "file" \o Char(DigitChars, i + 1),
               name |-> "2025-01-0" \o Char(DigitChars, i + 1) \o ".m3u"]

\* what files().list may return: the first n files of the folder in any order
Listings ==
    UNION { { [i \in 1..n |-> M3uFile(perm[i])] :
                perm \in {q \in [1..n -> 1..n] : \A i, j \in 1..n : q[i] = q[j] => i = j} } :
            n \in 0..MaxFiles }

\* one external call and how it ended
Call(op, arg, result) == [op |-> op, arg |-> arg, result |-> result]

\* what an external call may do: return, or raise
Outcomes == {"ok", "error"}

\* what the link write may do: return, be rejected by the store, or fail otherwise
LinkOutcomes == {"ok", "HttpError", "error"}

Init ==
    /\ pc = "start"
    /\ a3 = "2025-01-01 09:00"
    /\ body \in SeqsUpTo(BodyRows, MaxBody)
    /\ body0 = body
    /\ now = "2025-01-04 12:00"
    /\ cfg_max \in CfgMaxChoices
    /\ m3u_files = <<>>
    /\ idx = 0
    /\ existing_data = <<>>
    /\ new_entries = <<>>
    /\ seen_keys = {}
    /\ entries = <<>>
    /\ unread = <<>>
    /\ calls = <<>>
    /\ raised = ""
    /\ swallowed = <<>>
    /\ run = 1
    /\ body1 = <<>>
    /\ source = <<>>
    /\ pc2 = "idle"
    /\ entries2 = <<>>

\* an exception leaves publish_history
Raise(what) ==
    /\ pc' = "raised"
    /\ raised' = what

\* the statement after a call that returned
Goto(next) ==
    /\ pc' = next
    /\ UNCHANGED raised

----------------------------------------------------------------------------
(* publish_history, one action per external call *)

\* mutant of RecordLastRun: the run starts with the file enumeration
RecordLastRunSkipped ==
    /\ pc = "start"
    /\ Goto("list_folders")
    /\ UNCHANGED <<a3, body, body0, now, cfg_max, m3u_files, idx, existing_data,
                   new_entries, seen_keys, entries, unread, calls, swallowed>>
    /\ UNCHANGED others

\* update_last_run_time(sheets_service, now)
RecordLastRun ==
    /\ pc = "start"
    /\ \E r \in Outcomes :
          /\ calls' = Append(calls, Call("update A3", now, r))
          /\ IF r = "ok" THEN a3' = now /\ Goto("list_folders")
             ELSE Raise("update A3") /\ UNCHANGED a3
    /\ UNCHANGED <<body, body0, now, cfg_max, m3u_files, idx, existing_data,
                   new_entries, seen_keys, entries, unread, swallowed>>
    /\ UNCHANGED others

\* get_all_m3u_files: the folder query; without a folder the file list stays
\* empty, and `if not m3u_files` takes the no-files branch
ListFolders ==
    /\ pc = "list_folders"
    /\ \E r \in Outcomes, found \in BOOLEAN :
          /\ calls' = Append(calls, Call("list folders", "", r))
          /\ IF r # "ok" THEN Raise("list folders")
             ELSE IF found THEN Goto("list_files")
             ELSE Goto("nofiles_clear")
    /\ UNCHANGED <<a3, body, body0, now, cfg_max, m3u_files, idx, existing_data,
                   new_entries, seen_keys, entries, unread, swallowed>>
    /\ UNCHANGED others

\* mutant of ListFiles: publish_history without its `if not m3u_files` branch
ListFilesNoEmptyBranch ==
    /\ pc = "list_files"
    /\ \E r \in Outcomes, listing \in Listings :
          /\ calls' = Append(calls, Call("list files", "", r))
          /\ IF r # "ok" THEN Raise("list files") /\ UNCHANGED m3u_files
             ELSE /\ m3u_files' = SortFilesNewestFirst(listing)
                  /\ Goto("read_existing")
    /\ UNCHANGED <<a3, body, body0, now, cfg_max, idx, existing_data,
                   new_entries, seen_keys, entries, unread, swallowed>>
    /\ UNCHANGED others

\* get_all_m3u_files: the file query and the sort; `if not m3u_files`
ListFiles ==
    /\ pc = "list_files"
    /\ \E r \in Outcomes, listing \in Listings :
          /\ calls' = Append(calls, Call("list files", "", r))
          /\ IF r # "ok" THEN Raise("list files") /\ UNCHANGED m3u_files
             ELSE /\ m3u_files' = SortFilesNewestFirst(listing)
                  /\ IF Len(listing) = 0 THEN Goto("nofiles_clear")
                     ELSE Goto("read_existing")
    /\ UNCHANGED <<a3, body, body0, now, cfg_max, idx, existing_data,
                   new_entries, seen_keys, entries, unread, swallowed>>
    /\ UNCHANGED others

\* no files: sheets_clear_values(A5:D)
NoFilesClear ==
    /\ pc = "nofiles_clear"
    /\ \E r \in Outcomes :
          /\ calls' = Append(calls, Call("clear A5:D", "", r))
          /\ IF r = "ok" THEN body' = <<>> /\ Goto("nofiles_write")
             ELSE Raise("clear A5:D") /\ UNCHANGED body
    /\ UNCHANGED <<a3, body0, now, cfg_max, m3u_files, idx, existing_data,
                   new_entries, seen_keys, entries, unread, swallowed>>
    /\ UNCHANGED others

\* the sentinel row: [[log.format_date(now), config.NO_HISTORY]]
SentinelValues == << <<now, NO_HISTORY>> >>

\* no files: sheets_update_values(A5:B5, sentinel row), then return
NoFilesWrite ==
    /\ pc = "nofiles_write"
    /\ \E r \in Outcomes :
          /\ calls' = Append(calls, Call("update A5:B5", SentinelValues, r))
          /\ IF r = "ok" THEN body' = UpdateValues(body, 1, SentinelValues) /\ Goto("done")
             ELSE Raise("update A5:B5") /\ UNCHANGED body
    /\ UNCHANGED <<a3, body0, now, cfg_max, m3u_files, idx, existing_data,
                   new_entries, seen_keys, entries, unread, swallowed>>
    /\ UNCHANGED others

\* read_existing_entries, then the seeding of combined and seen_keys
ReadExisting ==
    /\ pc = "read_existing"
    /\ \E r \in Outcomes :
          /\ calls' = Append(calls, Call("get A5:C", "", r))
          /\ IF r = "ok"
             THEN /\ existing_data' = FilterExisting(GetValues(body))
                  /\ seen_keys' = build_dedup_keys(
                         [i \in 1..Len(existing_data') |-> Take3(existing_data'[i])])
                  /\ Goto("loop")
             ELSE /\ Raise("get A5:C")
                  /\ UNCHANGED <<existing_data, seen_keys>>
    /\ UNCHANGED <<a3, body, body0, now, cfg_max, m3u_files, idx, new_entries,
                   entries, unread, swallowed>>
    /\ UNCHANGED others

\* mutant of BelowMax: the loop stops only above max_songs
BelowMaxInclusive(n_combined, n_new, max) == n_combined + n_new <= max

\* `if len(combined) + len(new_entries) >= max_songs: break`, negated
BelowMax(n_combined, n_new, max) == n_combined + n_new < max

\* the for loop takes another file
LoopContinues ==
    /\ idx < Len(m3u_files)
    /\ BelowMax(Len(combined), Len(new_entries), max_songs)

\* new_entries.extend(parsed)
Extend(new, parsed) == new \o parsed

\* for row in parsed: seen_keys.add(build_dedup_key(row))
AddKeys(keys, parsed) == keys \cup build_dedup_keys(parsed)

\* mutant of FileFailed: no try/except around the loop body
FileFailedAborts(what, id) ==
    /\ Raise(what)
    /\ UNCHANGED <<swallowed, idx, new_entries, seen_keys>>

\* `except Exception`: the failure is logged and the loop goes on
FileFailed(what, id) ==
    /\ swallowed' = Append(swallowed, <<what, id>>)
    /\ idx' = idx + 1
    /\ UNCHANGED <<pc, raised, new_entries, seen_keys>>

\* the rows parse_m3u_lines returned are accepted as they are
FileParsed(parsed) ==
    /\ new_entries' = Extend(new_entries, parsed)
    /\ seen_keys' = AddKeys(seen_keys, parsed)
    /\ idx' = idx + 1
    /\ UNCHANGED <<pc, raised, swallowed>>

\* one pass of the loop body: download_m3u_file, parse_m3u_lines, extend
ProcessFile ==
    /\ pc = "loop"
    /\ LoopContinues
    /\ LET id == m3u_files[idx + 1].id
       IN \/ /\ calls' = Append(calls, Call("download", id, "error"))
             /\ FileFailed("download", id)
          \/ /\ calls' = Append(calls, Call("download", id, "ok"))
             /\ FileFailed("parse", id)
          \/ /\ calls' = Append(calls, Call("download", id, "ok"))
             /\ \E parsed \in Batches : FileParsed(parsed)
    /\ UNCHANGED <<a3, body, body0, now, cfg_max, m3u_files, existing_data,
                   entries, unread>>
    /\ UNCHANGED others

\* combined = [row[:3] for row in (combined + new_entries)]
Merged(old, new) == [i \in 1..Len(old \o new) |-> Take3((old \o new)[i])]

\* the sort key reads r[0]: a row without fields raises IndexError
Sortable(rows) == \A i \in 1..Len(rows) : Len(rows[i]) >= 1

\* merge, sort newest first, cap
Reconciled(old, new, max) == Cap(SortNewestFirst(Merged(old, new)), max)

RECURSIVE SeqsOfLen(_, _)
SeqsOfLen(S, n) ==
    IF n = 0 THEN {<<>>}
    ELSE {Append(q, x) : q \in SeqsOfLen(S, n - 1), x \in S}

\* The loop has ended: merge, sort and cap, and enter write_entries_to_sheet.
\* What the files the loop never took would have yielded is drawn here.
Reconcile ==
    /\ pc = "loop"
    /\ ~LoopContinues
    /\ unread' \in SeqsOfLen(Batches, Len(m3u_files) - idx)
    /\ IF Sortable(Merged(combined, new_entries))
       THEN /\ entries' = Reconciled(combined, new_entries, max_songs)
            /\ Goto("write_clear")
       ELSE /\ Raise("sort")
            /\ UNCHANGED entries
    /\ UNCHANGED <<a3, body, body0, now, cfg_max, m3u_files, idx, existing_data,
                   new_entries, seen_keys, calls, swallowed>>
    /\ UNCHANGED others

----------------------------------------------------------------------------
(* write_entries_to_sheet(sheets_service, entries, now) *)

\* mutant of WriteClear: the body is not cleared before it is written
WriteClearKeepsBody ==
    /\ pc = "write_clear"
    /\ \E r \in Outcomes :
          /\ calls' = Append(calls, Call("clear A5:D", "", r))
          /\ IF r # "ok" THEN Raise("clear A5:D")
             ELSE IF Len(entries) = 0 THEN Goto("write_sentinel")
             ELSE Goto("write_rows")
    /\ UNCHANGED <<a3, body, body0, now, cfg_max, m3u_files, idx, existing_data,
                   new_entries, seen_keys, entries, unread, swallowed>>
    /\ UNCHANGED others

\* sheets_clear_values(A5:D); `if not entries`
WriteClear ==
    /\ pc = "write_clear"
    /\ \E r \in Outcomes :
          /\ calls' = Append(calls, Call("clear A5:D", "", r))
          /\ IF r # "ok" THEN Raise("clear A5:D") /\ UNCHANGED body
             ELSE /\ body' = <<>>
                  /\ IF Len(entries) = 0 THEN Goto("write_sentinel")
                     ELSE Goto("write_rows")
    /\ UNCHANGED <<a3, body0, now, cfg_max, m3u_files, idx, existing_data,
                   new_entries, seen_keys, entries, unread, swallowed>>
    /\ UNCHANGED others

\* mutant of WriteSentinel: the `return` after the sentinel write is missing
WriteSentinelFallsThrough ==
    /\ pc = "write_sentinel"
    /\ \E r \in Outcomes :
          /\ calls' = Append(calls, Call("update A5:B5", SentinelValues, r))
          /\ IF r = "ok" THEN body' = UpdateValues(body, 1, SentinelValues) /\ Goto("write_rows")
             ELSE Raise("update A5:B5") /\ UNCHANGED body
    /\ UNCHANGED <<a3, body0, now, cfg_max, m3u_files, idx, existing_data,
                   new_entries, seen_keys, entries, unread, swallowed>>
    /\ UNCHANGED others

\* no entries: sheets_update_values(A5:B5, sentinel row), then return
WriteSentinel ==
    /\ pc = "write_sentinel"
    /\ \E r \in Outcomes :
          /\ calls' = Append(calls, Call("update A5:B5", SentinelValues, r))
          /\ IF r = "ok" THEN body' = UpdateValues(body, 1, SentinelValues) /\ Goto("done")
             ELSE Raise("update A5:B5") /\ UNCHANGED body
    /\ UNCHANGED <<a3, body0, now, cfg_max, m3u_files, idx, existing_data,
                   new_entries, seen_keys, entries, unread, swallowed>>
    /\ UNCHANGED others

\* mutant of WriteRows: a failed entry-row write is logged and passed over
WriteRowsSwallowing ==
    /\ pc = "write_rows"
    /\ \E r \in Outcomes :
          /\ calls' = Append(calls, Call("update A5:C", entries, r))
          /\ IF r = "ok" THEN body' = UpdateValues(body, 1, entries) /\ Goto("write_links")
             ELSE Goto("write_links") /\ UNCHANGED body
    /\ UNCHANGED <<a3, body0, now, cfg_max, m3u_files, idx, existing_data,
                   new_entries, seen_keys, entries, unread, swallowed>>
    /\ UNCHANGED others

\* mutant of WriteRows: the rows are taken off the caller's list as they are
\* written
WriteRowsConsuming ==
    /\ pc = "write_rows"
    /\ \E r \in Outcomes :
          /\ calls' = Append(calls, Call("update A5:C", entries, r))
          /\ IF r = "ok"
             THEN body' = UpdateValues(body, 1, entries) /\ entries' = <<>> /\ Goto("write_links")
             ELSE Raise("update A5:C") /\ UNCHANGED <<body, entries>>
    /\ UNCHANGED <<a3, body0, now, cfg_max, m3u_files, idx, existing_data,
                   new_entries, seen_keys, unread, swallowed>>
    /\ UNCHANGED others

\* sheets_update_values(A5:C<5+n-1>, entries)
WriteRows ==
    /\ pc = "write_rows"
    /\ \E r \in Outcomes :
          /\ calls' = Append(calls, Call("update A5:C", entries, r))
          /\ IF r = "ok" THEN body' = UpdateValues(body, 1, entries) /\ Goto("write_links")
             ELSE Raise("update A5:C") /\ UNCHANGED body
    /\ UNCHANGED <<a3, body0, now, cfg_max, m3u_files, idx, existing_data,
                   new_entries, seen_keys, entries, unread, swallowed>>
    /\ UNCHANGED others

\* mutant of AfterLinkWrite: no `except HttpError`
AfterLinkWriteRaising(outcome) ==
    IF outcome = "ok"
    THEN /\ body' = UpdateValues(body, 4, build_youtube_links(entries))
         /\ Goto("done")
         /\ UNCHANGED swallowed
    ELSE /\ Raise("update D5:D")
         /\ UNCHANGED <<body, swallowed>>

\* what becomes of the outcome of the link write: `except HttpError` logs
\* and returns, anything else leaves the function
AfterLinkWrite(outcome) ==
    IF outcome = "ok"
    THEN /\ body' = UpdateValues(body, 4, build_youtube_links(entries))
         /\ Goto("done")
         /\ UNCHANGED swallowed
    ELSE IF outcome = "HttpError"
    THEN /\ swallowed' = Append(swallowed, <<"HttpError", "update D5:D">>)
         /\ Goto("done")
         /\ UNCHANGED body
    ELSE /\ Raise("update D5:D")
         /\ UNCHANGED <<body, swallowed>>

\* the try block: build_youtube_links, then sheets_update_values(D5:D<5+n-1>)
WriteLinks ==
    /\ pc = "write_links"
    /\ IF LinksBuildable(entries)
       THEN \E r \in LinkOutcomes :
               /\ calls' = Append(calls, Call("update D5:D", build_youtube_links(entries), r))
               /\ AfterLinkWrite(r)
       ELSE /\ Raise("build_youtube_links")
            /\ UNCHANGED <<body, calls, swallowed>>
    /\ UNCHANGED <<a3, body0, now, cfg_max, m3u_files, idx, existing_data,
                   new_entries, seen_keys, entries, unread>>
    /\ UNCHANGED others

----------------------------------------------------------------------------

Next ==
    \/ RecordLastRun
    \/ ListFolders
    \/ ListFiles
    \/ NoFilesClear
    \/ NoFilesWrite
    \/ ReadExisting
    \/ ProcessFile
    \/ Reconcile
    \/ WriteClear
    \/ WriteSentinel
    \/ WriteRows
    \/ WriteLinks

Spec == Init /\ [][Next]_vars

----------------------------------------------------------------------------
(* read_existing_entries alone, over every shape of body row *)

\* rows of the body as read_existing_entries may meet them: complete, without
\* artist, without title and artist, empty between others, sentinel, with a
\* timestamp that is no timestamp or no date
ReadRows ==
    { <<"2025-01-02 10:00", "A", "X", "old">>,
      <<"2025-01-01 09:30", "Q", "", "">>,
      <<"2025-01-05 08:00", "", "", "">>,
      <<"", "", "", "">>,
      <<"2025-01-01 09:00", NO_HISTORY, "", "">>,
      <<"today", "C", "Z", "">>,
      <<"2025-02-30 10:00", "E", "V", "">> }

InitRead ==
    /\ pc = "read_existing"
    /\ a3 = "2025-01-04 12:00"
    /\ body \in SeqsUpTo(ReadRows, MaxBody)
    /\ body0 = body
    /\ now = "2025-01-04 12:00"
    /\ cfg_max = 0
    /\ m3u_files = <<M3uFile(1)>>
    /\ idx = 0
    /\ existing_data = <<>>
    /\ new_entries = <<>>
    /\ seen_keys = {}
    /\ entries = <<>>
    /\ unread = <<>>
    /\ calls = <<>>
    /\ raised = ""
    /\ swallowed = <<>>
    /\ run = 1
    /\ body1 = <<>>
    /\ source = <<>>
    /\ pc2 = "idle"
    /\ entries2 = <<>>

NextRead == ReadExisting

SpecRead == InitRead /\ [][NextRead]_vars

----------------------------------------------------------------------------
(* write_entries_to_sheet alone, called twice in a row *)

\* lists publish_history can hand to write_entries_to_sheet: existing rows of
\* a body of one row merged with one batch, sorted
EntryLists ==
    { Reconciled(FilterExisting(GetValues(b)), batch, DefaultMaxSongs) :
        b \in SeqsUpTo(BodyRows, 1), batch \in {q \in Batches : Sortable(q)} }

InitWriter ==
    /\ pc = "write_clear"
    /\ a3 = "2025-01-04 12:00"
    /\ body \in SeqsUpTo(BodyRows, MaxBody)
    /\ body0 = body
    /\ now = "2025-01-04 12:00"
    /\ cfg_max = 0
    /\ m3u_files = <<>>
    /\ idx = 0
    /\ existing_data = <<>>
    /\ new_entries = <<>>
    /\ seen_keys = {}
    /\ entries \in EntryLists
    /\ unread = <<>>
    /\ calls = <<>>
    /\ raised = ""
    /\ swallowed = <<>>
    /\ run = 1
    /\ body1 = <<>>
    /\ source = <<>>
    /\ pc2 = "idle"
    /\ entries2 = <<>>

\* the results of the link writes issued so far
LinkResults(cs) == {cs[i].result : i \in {j \in 1..Len(cs) : cs[j].op = "update D5:D"}}

\* the link write of the second call ends as the one of the first call did
WriteLinksAsBefore ==
    /\ WriteLinks
    /\ Cardinality(LinkResults(calls')) <= 1

\* the first call has returned: write_entries_to_sheet is called again with
\* the same entries and the same now
CallAgain ==
    /\ pc = "done"
    /\ run = 1
    /\ run' = 2
    /\ body1' = body
    /\ pc' = "write_clear"
    /\ UNCHANGED <<a3, body, body0, now, cfg_max, m3u_files, idx, existing_data,
                   new_entries, seen_keys, entries, unread, calls, raised, swallowed,
                   source, pc2, entries2>>

NextTwice ==
    \/ WriteClear
    \/ WriteSentinel
    \/ WriteRows
    \/ WriteLinksAsBefore
    \/ CallAgain

SpecTwice == InitWriter /\ [][NextTwice]_vars

----------------------------------------------------------------------------
(* two runs on one record: write_entries_to_sheet of a second run, whose
   calls fall between the calls of the first *)

\* the second run leaves everything of the first run alone but the record
\* and the log of calls
Run1Locals == <<pc, a3, body0, now, cfg_max, m3u_files, idx, existing_data,
                new_entries, seen_keys, entries, unread, raised, swallowed,
                run, body1, source, entries2>>

\* mutant of Write2Clear: the clear waits while the other run is between its
\* clear and its last write
Write2ClearWaiting ==
    /\ pc2 = "write_clear"
    /\ pc \notin {"write_sentinel", "write_rows", "write_links"}
    /\ \E r \in Outcomes :
          /\ calls' = Append(calls, Call("clear A5:D", "", r))
          /\ IF r # "ok" THEN pc2' = "raised" /\ UNCHANGED body
             ELSE /\ body' = <<>>
                  /\ pc2' = IF Len(entries2) = 0 THEN "write_sentinel" ELSE "write_rows"
    /\ UNCHANGED Run1Locals

\* second run: sheets_clear_values(A5:D); `if not entries`
Write2Clear ==
    /\ pc2 = "write_clear"
    /\ \E r \in Outcomes :
          /\ calls' = Append(calls, Call("clear A5:D", "", r))
          /\ IF r # "ok" THEN pc2' = "raised" /\ UNCHANGED body
             ELSE /\ body' = <<>>
                  /\ pc2' = IF Len(entries2) = 0 THEN "write_sentinel" ELSE "write_rows"
    /\ UNCHANGED Run1Locals

\* second run: the sentinel row, then return
Write2Sentinel ==
    /\ pc2 = "write_sentinel"
    /\ \E r \in Outcomes :
          /\ calls' = Append(calls, Call("update A5:B5", SentinelValues, r))
          /\ IF r = "ok" THEN body' = UpdateValues(body, 1, SentinelValues) /\ pc2' = "done"
             ELSE pc2' = "raised" /\ UNCHANGED body
    /\ UNCHANGED Run1Locals

\* second run: sheets_update_values(A5:C<5+n-1>, entries)
Write2Rows ==
    /\ pc2 = "write_rows"
    /\ \E r \in Outcomes :
          /\ calls' = Append(calls, Call("update A5:C", entries2, r))
          /\ IF r = "ok" THEN body' = UpdateValues(body, 1, entries2) /\ pc2' = "write_links"
             ELSE pc2' = "raised" /\ UNCHANGED body
    /\ UNCHANGED Run1Locals

\* second run: build_youtube_links, sheets_update_values(D5:D<5+n-1>), and
\* `except HttpError`
Write2Links ==
    /\ pc2 = "write_links"
    /\ IF LinksBuildable(entries2)
       THEN \E r \in LinkOutcomes :
               /\ calls' = Append(calls, Call("update D5:D", build_youtube_links(entries2), r))
               /\ IF r = "ok"
                  THEN body' = UpdateValues(body, 4, build_youtube_links(entries2))
                  ELSE UNCHANGED body
               /\ pc2' = IF r = "error" THEN "raised" ELSE "done"
       ELSE /\ pc2' = "raised"
            /\ UNCHANGED <<body, calls>>
    /\ UNCHANGED Run1Locals

InitRace ==
    /\ pc = "write_clear"
    /\ a3 = "2025-01-04 12:00"
    /\ body \in SeqsUpTo(BodyRows, 1)
    /\ body0 = body
    /\ now = "2025-01-04 12:00"
    /\ cfg_max = 0
    /\ m3u_files = <<>>
    /\ idx = 0
    /\ existing_data = <<>>
    /\ new_entries = <<>>
    /\ seen_keys = {}
    /\ entries \in EntryLists
    /\ unread = <<>>
    /\ calls = <<>>
    /\ raised = ""
    /\ swallowed = <<>>
    /\ run = 1
    /\ body1 = <<>>
    /\ source = <<>>
    /\ pc2 = "write_clear"
    /\ entries2 \in EntryLists

NextRace ==
    \/ WriteClear
    \/ WriteSentinel
    \/ WriteRows
    \/ WriteLinks
    \/ Write2Clear
    \/ Write2Sentinel
    \/ Write2Rows
    \/ Write2Links

SpecRace == InitRace /\ [][NextRace]_vars

----------------------------------------------------------------------------
(* build_dedup_keys alone, over pairs of rows *)

\* cells that differ by case, by surrounding whitespace, by a letter, and
\* cells with the character of the separator at an end
KeyCells == {"a", "A", " a", "a ", "b", "a|", "|b"}

\* rows of three cells
KeyRows ==
    { <<ts, title, artist>> :
        ts \in {"2025-01-03 10:00", "2025-01-03 10:00 "},
        title \in KeyCells, artist \in KeyCells }

InitKeys ==
    /\ pc = "keys"
    /\ a3 = "2025-01-04 12:00"
    /\ body = <<>>
    /\ body0 = body
    /\ now = "2025-01-04 12:00"
    /\ cfg_max = 0
    /\ m3u_files = <<>>
    /\ idx = 0
    /\ existing_data \in {<<r1, r2>> : r1 \in KeyRows, r2 \in KeyRows}
    /\ new_entries = <<>>
    /\ seen_keys = {}
    /\ entries = <<>>
    /\ unread = <<>>
    /\ calls = <<>>
    /\ raised = ""
    /\ swallowed = <<>>
    /\ run = 1
    /\ body1 = <<>>
    /\ source = <<>>
    /\ pc2 = "idle"
    /\ entries2 = <<>>

\* seen_keys = build_dedup_keys(combined)
BuildKeys ==
    /\ pc = "keys"
    /\ seen_keys' = build_dedup_keys(combined)
    /\ pc' = "keys_done"
    /\ UNCHANGED <<a3, body, body0, now, cfg_max, m3u_files, idx, existing_data,
                   new_entries, entries, unread, calls, raised, swallowed>>
    /\ UNCHANGED others

NextKeys == BuildKeys

SpecKeys == InitKeys /\ [][NextKeys]_vars

----------------------------------------------------------------------------
(* Properties *)

\* write_entries_to_sheet has been entered with `entries` and has not raised
Handed == pc \in {"write_clear", "write_sentinel", "write_rows", "write_links", "done"}

Last(s) == s[Len(s)]

RECURSIVE Flatten(_)
Flatten(batches) ==
    IF Len(batches) = 0 THEN <<>> ELSE Head(batches) \o Flatten(Tail(batches))

\* the candidates that repeat neither a key of `keys` nor an earlier candidate
RECURSIVE NonDuplicates(_, _)
NonDuplicates(keys, cands) ==
    IF Len(cands) = 0 THEN <<>>
    ELSE IF build_dedup_key(Head(cands)) \in keys
         THEN NonDuplicates(keys, Tail(cands))
         ELSE <<Head(cands)>>
              \o NonDuplicates(keys \cup {build_dedup_key(Head(cands))}, Tail(cands))

Count(s, x) == Cardinality({i \in 1..Len(s) : s[i] = x})

\* every candidate of every batch of the run, pulled or not, newest file first
AllCandidates == new_entries \o Flatten(unread)

\* C1: early termination of the batch pull does not change the result: the
\* list handed to the writer is the max_songs newest entries of existing plus
\* the non-duplicate candidates of all batches, newest first.
C1_EarlyStopKeepsResult ==
    (Handed /\ Sortable(AllCandidates)) =>
        entries = Cap(SortNewestFirst(Merged(combined,
                          NonDuplicates(build_dedup_keys(combined), AllCandidates))),
                      max_songs)

\* C2: the accumulator of new entries never holds a row whose dedupe key is
\* the key of an existing entry or of a candidate accepted earlier in the
\* run, whatever the parser returned.
C2_NoDuplicateAccepted ==
    \A i \in 1..Len(new_entries) :
        /\ build_dedup_key(new_entries[i]) \notin build_dedup_keys(combined)
        /\ \A j \in 1..(i - 1) :
              build_dedup_key(new_entries[j]) # build_dedup_key(new_entries[i])

\* C3: the write of the last-run timestamp to A3 is the first external call
\* of the run, the body is untouched until it has been issued, and once it
\* has succeeded A3 holds the timestamp in every later state of the run.
C3_LastRunFirst ==
    /\ Len(calls) >= 1 => (calls[1].op = "update A3" /\ calls[1].arg = now)
    /\ Len(calls) <= 1 => body = body0
    /\ (Len(calls) >= 1 /\ calls[1].result = "ok") => a3 = now

\* C3 witness: the entry-row write failed late in a run with source files,
\* and A3 still holds this run's timestamp
C3_Witness ==
    /\ pc = "raised"
    /\ raised = "update A5:C"
    /\ a3 = now

BodyCalls ==
    SelectSeq(calls, LAMBDA c : c.op \in {"clear A5:D", "update A5:B5",
                                          "update A5:C", "update D5:D"})

\* C4: with an empty entry list (no source files, or nothing to publish) no
\* entry-row write and no link write is issued and the body is cleared at
\* most once; a finished run has issued exactly the clear and then the
\* sentinel write, and the body is the sentinel row alone.
C4_EmptyPublishesSentinel ==
    Len(entries) = 0 =>
        /\ \A i \in 1..Len(calls) : calls[i].op \notin {"update A5:C", "update D5:D"}
        /\ Count([i \in 1..Len(calls) |-> calls[i].op], "clear A5:D") <= 1
        /\ pc = "done" =>
              /\ [i \in 1..Len(BodyCalls) |-> BodyCalls[i].op]
                    = <<"clear A5:D", "update A5:B5">>
              /\ BodyCalls[2].arg = << <<now, NO_HISTORY>> >>
              /\ body = << <<now, NO_HISTORY, "", "">> >>

\* C4 witness: source files exist, nothing is left to publish, and the run
\* has replaced a non-empty body
C4_Witness ==
    /\ pc = "done"
    /\ Len(entries) = 0
    /\ Len(m3u_files) > 0
    /\ Len(body0) > 0

\* C5: when the store rejects the link write with HttpError, the writer
\* returns normally and the body holds exactly the entry rows as written to
\* columns A-C, after a single clear.
C5_LinkRejectionKeepsRows ==
    (Len(calls) >= 1 /\ Last(calls).op = "update D5:D"
                     /\ Last(calls).result = "HttpError") =>
        /\ pc = "done"
        /\ raised = ""
        /\ Len(entries) > 0
        /\ Len(body) = Len(entries)
        /\ \A i \in 1..Len(entries) : body[i] = entries[i] \o <<"">>
        /\ Count([i \in 1..Len(calls) |-> calls[i].op], "clear A5:D") = 1

\* C5 witness: a run whose link write was rejected has returned
C5_Witness ==
    /\ pc = "done"
    /\ Len(calls) >= 1
    /\ Last(calls).op = "update D5:D"
    /\ Last(calls).result = "HttpError"

\* C6: a file whose download or parse raises adds no entry and no key and
\* keeps what earlier files gave, the loop goes on with the next file, and
\* the loop is left only when the files are used up or max_songs is reached,
\* and then for the sort, cap and publish.
C6_FileFailureSkipsFile ==
    [][ /\ (pc = "loop" /\ Len(swallowed') = Len(swallowed) + 1) =>
              /\ new_entries' = new_entries
              /\ seen_keys' = seen_keys
              /\ idx' = idx + 1
              /\ pc' = "loop"
        /\ (pc = "loop" /\ pc' # "loop") =>
              /\ \/ idx = Len(m3u_files)
                 \/ Len(existing_data) + Len(new_entries) >= max_songs
              /\ pc' = "write_clear" \/ (pc' = "raised" /\ raised' = "sort")
      ]_vars

\* C6 witness: the newest file failed to download, a later file gave
\* entries, and the run published
C6_Witness ==
    /\ pc = "done"
    /\ Len(swallowed) >= 1
    /\ swallowed[1] = <<"download", m3u_files[1].id>>
    /\ Len(new_entries) > 0

Swallowable(c) ==
    \/ c.op = "download"
    \/ c.op = "update D5:D" /\ c.result = "HttpError"

\* the body after the calls of cs that succeeded, in order
RECURSIVE Replay(_, _)
Replay(b, cs) ==
    IF Len(cs) = 0 THEN b
    ELSE LET c == Head(cs)
             nb == IF c.result # "ok" THEN b
                   ELSE IF c.op = "clear A5:D" THEN <<>>
                   ELSE IF c.op \in {"update A5:B5", "update A5:C"}
                        THEN UpdateValues(b, 1, c.arg)
                   ELSE IF c.op = "update D5:D" THEN UpdateValues(b, 4, c.arg)
                   ELSE b
         IN Replay(nb, Tail(cs))

\* C7: a failed external call other than a download and a rejected link
\* write is the last call of the run and its exception leaves
\* publish_history; a failed download or rejected link write never does;
\* and the body is what the successful calls made of it, with no rollback.
C7_OnlyNamedFailuresSwallowed ==
    /\ \A i \in 1..Len(calls) :
          (calls[i].result # "ok" /\ ~Swallowable(calls[i])) =>
              (i = Len(calls) /\ pc = "raised" /\ raised = calls[i].op)
    /\ \A i \in 1..Len(calls) :
          (calls[i].result # "ok" /\ Swallowable(calls[i])) =>
              ~(pc = "raised" /\ raised = calls[i].op)
    /\ body = Replay(body0, calls)

\* C7 witness: the entry-row write failed and left the body cleared
C7_Witness ==
    /\ pc = "raised"
    /\ raised = "update A5:C"
    /\ body = <<>>
    /\ Len(body0) > 0

\* C8: the list handed to the writer is ordered by parsed timestamp, newest
\* first, with unparseable timestamps as the oldest value (each entry against
\* the next, which orders every pair), holds at most max_songs entries, and
\* keeps every row with an unparseable timestamp when the merged list has at
\* most max_songs entries.
C8_SortedAndCapped ==
    pc = "write_clear" =>
        /\ Len(entries) <= max_songs
        /\ \A i \in 1..(Len(entries) - 1) :
              IF ParseEntryDt(entries[i][1]) = NoDt
              THEN ParseEntryDt(entries[i + 1][1]) <= DatetimeMin
              ELSE ParseEntryDt(entries[i + 1][1]) <= ParseEntryDt(entries[i][1])
        /\ Len(existing_data) + Len(new_entries) <= max_songs =>
              \A i \in 1..Len(new_entries) :
                 ParseEntryDt(new_entries[i][1]) = NoDt =>
                    Count(entries, Take3(new_entries[i]))
                       = Count(Merged(combined, new_entries), Take3(new_entries[i]))

\* C8 witness: a row with an unparseable timestamp was merged before a newer
\* row and has been sorted to the end
C8_Witness ==
    /\ pc = "write_clear"
    /\ Len(entries) >= 2
    /\ ParseEntryDt(Last(entries)[1]) = NoDt
    /\ entries # Merged(combined, new_entries)

\* C9: when no candidate was accepted, the result holds only existing
\* entries, as many as max_songs allows and all of them when existing has at
\* most max_songs entries, newest first, the ones left out being the oldest.
C9_EmptyBatchesKeepExisting ==
    (pc = "write_clear" /\ Len(new_entries) = 0) =>
        /\ Len(entries) = Min(Len(existing_data), max_songs)
        /\ \A i \in 1..Len(entries) :
              Count(entries, entries[i]) <= Count(existing_data, entries[i])
        /\ Len(existing_data) <= max_songs =>
              \A k \in 1..Len(existing_data) :
                 Count(entries, existing_data[k]) = Count(existing_data, existing_data[k])
        /\ \A i \in 1..(Len(entries) - 1) :
              ParseEntryDt(entries[i + 1][1]) <= ParseEntryDt(entries[i][1])
        /\ \A k \in 1..Len(existing_data), i \in 1..Len(entries) :
              Count(entries, existing_data[k]) < Count(existing_data, existing_data[k])
                 => ParseEntryDt(existing_data[k][1]) <= ParseEntryDt(entries[i][1])

\* C9 witness: a file was pulled and gave nothing, and the two existing
\* entries were handed over in another order than they were read
C9_Witness ==
    /\ pc = "write_clear"
    /\ idx >= 1
    /\ Len(swallowed) = 0
    /\ Len(new_entries) = 0
    /\ Len(existing_data) = 2
    /\ Len(entries) = 2
    /\ entries # existing_data

\* C10: every entry handed to the writer has exactly three fields, and the
\* coercion of rows to three fields never raises.
C10_ThreeFields ==
    /\ \A i \in 1..Len(entries) : Len(entries[i]) = 3
    /\ raised # "sort"

----------------------------------------------------------------------------
(* read_existing_entries *)

\* the row is the sentinel row: its second cell is the marker
IsSentinelRow(row) == Len(row) >= 2 /\ row[2] = NO_HISTORY

\* the row has a timestamp cell and it parses
TimestampParses(row) == Len(row) >= 1 /\ ParseEntryDt(row[1]) # NoDt

NotSentinelAndParses(row) == ~IsSentinelRow(row) /\ TimestampParses(row)

TwoCellsNotSentinelAndParses(row) == Len(row) >= 2 /\ NotSentinelAndParses(row)

\* read_existing_entries raises only when the read of the body itself fails
ReadRaisesOnlyOnCall ==
    pc = "raised" => (raised = "get A5:C" /\ Last(calls).result = "error")

\* C11 as stated: read_existing_entries returns, in body order, exactly the
\* rows that are not the sentinel row and whose timestamp parses, and no row
\* makes it raise.
C11_ReadKeepsParsedNonSentinel ==
    /\ pc = "loop" => existing_data = SelectSeq(GetValues(body), NotSentinelAndParses)
    /\ ReadRaisesOnlyOnCall

\* C11 amended: read_existing_entries returns, in body order, exactly the
\* rows that hold at least two cells, are not the sentinel row and whose
\* timestamp parses; every other row, a row of one cell included, is left
\* out, and no row makes it raise.
C11_ReadKeepsTwoCellRows ==
    /\ pc = "loop" => existing_data = SelectSeq(GetValues(body), TwoCellsNotSentinelAndParses)
    /\ ReadRaisesOnlyOnCall

\* C11 witness: a row holding only a parseable timestamp was left out and
\* the row after it was returned
C11_Witness ==
    /\ pc = "loop"
    /\ body = << <<"2025-01-05 08:00", "", "", "">>, <<"2025-01-01 09:30", "Q", "", "">> >>
    /\ existing_data = << <<"2025-01-01 09:30", "Q">> >>

\* the cutoff of a run, as the test of read_existing_entries configures one:
\* a datetime between the timestamps of the modelled rows
Cutoff == "2025-01-02 00:00"

AtOrAfterCutoff(row) ==
    TwoCellsNotSentinelAndParses(row) /\ ParseEntryDt(row[1]) >= ParseEntryDt(Cutoff)

\* C12: with a configured cutoff, the rows read back are the rows
\* read_existing_entries keeps whose timestamp is at or after the cutoff; a
\* row that parses and is strictly before the cutoff is not among them.
C12_CutoffExcludesOlderRows ==
    pc = "loop" => existing_data = SelectSeq(GetValues(body), AtOrAfterCutoff)

----------------------------------------------------------------------------
(* the order of a run *)

\* the state of the run an external call belongs to: 1 RecordingLastRun,
\* 2 the enumeration that decides between NoSourceFiles and HasSourceFiles,
\* 3 ReadExisting, 4 Reconcile, 5 to 7 Publish or PublishSentinel (the clear,
\* the rows or the sentinel row, the links)
Phase(op) ==
    CASE op = "update A3" -> 1
      [] op \in {"list folders", "list files"} -> 2
      [] op = "get A5:C" -> 3
      [] op = "download" -> 4
      [] op = "clear A5:D" -> 5
      [] op \in {"update A5:B5", "update A5:C"} -> 6
      [] op = "update D5:D" -> 7

Ops == {calls[i].op : i \in 1..Len(calls)}

\* the calls after which the run may be at position p
CallsBefore(p) ==
    CASE p = "start" -> {}
      [] p = "list_folders" -> {"update A3"}
      [] p = "list_files" -> {"list folders"}
      [] p = "nofiles_clear" -> {"list folders", "list files"}
      [] p = "nofiles_write" -> {"clear A5:D"}
      [] p = "read_existing" -> {"list files"}
      [] p \in {"loop", "write_clear"} -> {"get A5:C", "download"}
      [] p \in {"write_sentinel", "write_rows"} -> {"clear A5:D"}
      [] p = "write_links" -> {"update A5:C"}
      [] p = "done" -> {"update A5:B5", "update D5:D"}

\* C13: a run goes through RecordingLastRun, then NoSourceFiles and
\* PublishSentinel or HasSourceFiles, ReadExisting, Reconcile and Publish, and
\* ends: its calls come in that order and none but the download is issued
\* twice; without source files the body is never read and nothing is
\* downloaded; with source files the read of the body precedes every download
\* and the one clear follows the last download.
C13_RunOrder ==
    /\ \A i \in 1..(Len(calls) - 1) : Phase(calls[i].op) <= Phase(calls[i + 1].op)
    /\ \A i, j \in 1..Len(calls) :
          (i < j /\ calls[i].op = calls[j].op) => calls[i].op = "download"
    /\ pc # "raised" =>
          IF calls = <<>> THEN pc = "start" ELSE Last(calls).op \in CallsBefore(pc)
    /\ Len(m3u_files) = 0 => Ops \cap {"get A5:C", "download"} = {}
    /\ (Len(m3u_files) > 0 /\ Ops \cap {"download", "clear A5:D"} # {}) =>
          "get A5:C" \in Ops
    /\ ~({"update A5:B5", "update A5:C"} \subseteq Ops)

\* C13 witness: a run with source files read the body, downloaded two files,
\* cleared the body once and published rows and links
C13_Witness ==
    /\ pc = "done"
    /\ [i \in 1..Len(calls) |-> calls[i].op] =
          <<"update A3", "list folders", "list files", "get A5:C", "download",
            "download", "clear A5:D", "update A5:C", "update D5:D">>

----------------------------------------------------------------------------
(* the body a run leaves *)

\* the body that holds the sentinel row and nothing else
SentinelBody == << <<now, NO_HISTORY, "", "">> >>

\* the body holds the rows of es in order, and in column D either the link
\* of each row or nothing at all
HoldsExactly(b, es) ==
    /\ Len(b) = Len(es)
    /\ \A i \in 1..Len(es) : SubSeq(b[i], 1, 3) = es[i]
    /\ \/ \A i \in 1..Len(es) : b[i][4] = YoutubeLink(es[i][2], es[i][3])
       \/ \A i \in 1..Len(es) : b[i][4] = ""

\* C14: after a run that completed, the body is either the sentinel row
\* alone or the reconciled entries in order with their links or with an empty
\* column D, whatever it held before: nothing of the previous body is left
\* and the sentinel row is never beside entry rows.
C14_BodyReplacedWholesale ==
    pc = "done" =>
        IF Len(entries) = 0 THEN body = SentinelBody ELSE HoldsExactly(body, entries)

\* C14 witness: the body held an entry with a link and a sentinel row under
\* it; the run left the one entry, without a link
C14_Witness ==
    /\ pc = "done"
    /\ body0 = << <<"2025-01-02 10:00", "A", "X", "old">>,
                  <<"2025-01-01 09:00", NO_HISTORY, "", "">> >>
    /\ body = << <<"2025-01-02 10:00", "A", "X", "">> >>

----------------------------------------------------------------------------
(* write_entries_to_sheet, repeated *)

\* C15: write_entries_to_sheet called twice in a row with the same entries
\* and the same now, the link write ending the same way both times, leaves
\* the body as the first call left it.
C15_PublishIdempotent ==
    (run = 2 /\ pc = "done") => body = body1

\* C15 witness: the second call has returned, over rows whose link write
\* was rejected both times, after a first call that changed the body
C15_Witness ==
    /\ run = 2
    /\ pc = "done"
    /\ Len(entries) = 3
    /\ LinkResults(calls) = {"HttpError"}
    /\ body0 # body1

----------------------------------------------------------------------------
(* two runs on one record *)

\* positions at which write_entries_to_sheet is about to issue a call
WriterPositions == {"write_clear", "write_sentinel", "write_rows", "write_links"}

\* the bodies one completed call of write_entries_to_sheet can leave
AloneBodies(es) ==
    IF Len(es) = 0 THEN {SentinelBody}
    ELSE { [i \in 1..Len(es) |-> es[i] \o <<YoutubeLink(es[i][2], es[i][3])>>],
           [i \in 1..Len(es) |-> es[i] \o <<"">>] }

\* C16: nothing keeps the call of one run from landing between the clear
\* and the writes of the other: whatever position one run is at, the next
\* call of the other run can be issued.
C16_NoMutualExclusion ==
    /\ pc2 \in WriterPositions =>
          ENABLED (Write2Clear \/ Write2Sentinel \/ Write2Rows \/ Write2Links)
    /\ pc \in WriterPositions =>
          ENABLED (WriteClear \/ WriteSentinel \/ WriteRows \/ WriteLinks)

\* C16 witness: both runs have returned and the body is none that either
\* run leaves alone: the sentinel row of one run over the links of the other
C16_Witness ==
    /\ pc = "done"
    /\ pc2 = "done"
    /\ Len(entries) = 3
    /\ Len(entries2) = 0
    /\ body \notin (AloneBodies(entries) \cup AloneBodies(entries2))
    /\ body[1][2] = NO_HISTORY
    /\ body[2][4] = YoutubeLink(entries[2][2], entries[2][3])

----------------------------------------------------------------------------
(* dedupe keys *)

\* s without its leading and trailing whitespace, by position
Core(s) ==
    LET ink == {i \in 1..Len(s) : ~IsSpace(Char(s, i))}
    IN IF ink = {} THEN ""
       ELSE SubSeq(s, CHOOSE i \in ink : \A j \in ink : i <= j,
                      CHOOSE i \in ink : \A j \in ink : i >= j)

\* the same character, or the two cases of one letter
SameLetter(c, d) ==
    c = d \/ \E i \in 1..26 : {c, d} = {Char(UpperChars, i), Char(LowerChars, i)}

\* two cells that differ at most by letter case and surrounding whitespace
SameCell(s, t) ==
    /\ Len(Core(s)) = Len(Core(t))
    /\ \A i \in 1..Len(Core(s)) : SameLetter(Char(Core(s), i), Char(Core(t), i))

SameRow(r1, r2) == \A i \in 1..3 : SameCell(r1[i], r2[i])

Contains(s, sub) ==
    \E i \in 1..(Len(s) - Len(sub) + 1) : SubSeq(s, i, i + Len(sub) - 1) = sub

NoCellContains(r, sub) == \A i \in 1..3 : ~Contains(r[i], sub)

\* the two rows got one key / two keys
OneKey == Cardinality(seen_keys) = 1

\* C17 as stated: rows that differ only by letter case or surrounding
\* whitespace get the same key, and rows that differ otherwise get different
\* keys when no cell contains the separator "||".
C17_KeyClasses ==
    pc = "keys_done" =>
        LET r1 == existing_data[1]  r2 == existing_data[2]
        IN /\ SameRow(r1, r2) => OneKey
           /\ (~SameRow(r1, r2) /\ NoCellContains(r1, "||") /\ NoCellContains(r2, "||"))
                 => ~OneKey

\* C17 amended: rows that differ only by letter case or surrounding
\* whitespace get the same key, and rows that differ otherwise get different
\* keys when no cell contains the character "|" of the separator.
C17_KeyClassesNoPipe ==
    pc = "keys_done" =>
        LET r1 == existing_data[1]  r2 == existing_data[2]
        IN /\ SameRow(r1, r2) => OneKey
           /\ (~SameRow(r1, r2) /\ NoCellContains(r1, "|") /\ NoCellContains(r2, "|"))
                 => ~OneKey

\* C17 witness: two rows that differ by case and whitespace in every cell
\* got one key
C17_Witness ==
    /\ pc = "keys_done"
    /\ existing_data = << <<"2025-01-03 10:00", "A", " a">>,
                          <<"2025-01-03 10:00 ", " a", "A">> >>
    /\ seen_keys = {"2025-01-03 10:00||a||a"}

----------------------------------------------------------------------------
(* downloads *)

IsDownload(c) == c.op = "download"

\* the ids of the files downloaded so far, in the order of the downloads
Downloaded ==
    LET d == SelectSeq(calls, IsDownload) IN [i \in 1..Len(d) |-> d[i].arg]

\* the downloads so far are the first files of the list, one download each,
\* failed or not, and the list is newest first
DownloadsFollowList ==
    /\ Len(Downloaded) = idx
    /\ idx <= Len(m3u_files)
    /\ \A i \in 1..idx : Downloaded[i] = m3u_files[i].id
    /\ \A i \in 1..(Len(m3u_files) - 1) : StrLess(m3u_files[i + 1].name, m3u_files[i].name)
    /\ Len(calls) <= Len(m3u_files) + 7

\* every step issues one call or leaves the loop or the writer for good, and
\* a step that downloads starts below max_songs
DownloadsBelowMax ==
    /\ \/ Len(calls') = Len(calls) + 1
       \/ /\ calls' = calls
          /\ pc \in {"loop", "write_links"}
          /\ pc' \in {"write_clear", "raised"}
    /\ (Len(calls') > Len(calls) /\ IsDownload(Last(calls'))) =>
          Len(existing_data) + Len(new_entries) < max_songs

\* C18: the downloads of a run are bounded: each file of the list is
\* downloaded at most once, newest first, a failed file is not tried again,
\* no file is downloaded once existing plus accepted new entries have reached
\* max_songs, and the run issues at most seven calls besides its downloads.
C18_BoundedDownloads == []DownloadsFollowList /\ [][DownloadsBelowMax]_vars

\* C18 witness: two files were listed and the body already held max_songs
\* rows, and the run ended without a download
C18_Witness ==
    /\ pc = "done"
    /\ Len(m3u_files) = 2
    /\ Len(existing_data) = max_songs
    /\ Downloaded = <<>>

----------------------------------------------------------------------------
(* links *)

\* C19: the link write carries one link for each of the n entries, to the
\* rows of column D that the entry write filled in columns A-C, and link i
\* is the link of title and artist of entry i; after a link write that
\* succeeded every row of the body holds the link of its own entry.
C19_LinksMatchRows ==
    (calls # <<>> /\ Last(calls).op = "update D5:D") =>
        LET links == Last(calls).arg
            rows == calls[Len(calls) - 1]
        IN /\ rows.op = "update A5:C"
           /\ rows.arg = entries
           /\ Len(links) = Len(entries)
           /\ \A i \in 1..Len(entries) :
                 links[i] = <<YoutubeLink(entries[i][2], entries[i][3])>>
           /\ Last(calls).result = "ok" =>
                 /\ Len(body) = Len(entries)
                 /\ \A i \in 1..Len(body) :
                       /\ SubSeq(body[i], 1, 3) = entries[i]
                       /\ body[i][4] = YoutubeLink(body[i][2], body[i][3])

\* C19 witness: three rows were published, each with the link of its own
\* title and artist
C19_Witness ==
    /\ pc = "done"
    /\ body = << <<"2025-01-03 10:00", "B", "Y",
                   "https://www.youtube.com/results?search_query=B+Y">>,
                 <<"2025-01-02 10:00", "A", "X",
                   "https://www.youtube.com/results?search_query=A+X">>,
                 <<"2025-01-02 10:00", " a", "x",
                   "https://www.youtube.com/results?search_query=+a+x">> >>

----------------------------------------------------------------------------
(* a run and a second run over the same source files, nothing failing *)

\* what a source file may hold: nothing, a row, a row without artist, a row
\* with a timestamp that does not parse and a row the body may hold already
SourceBatches ==
    { <<>>,
      << <<"2025-01-03 10:00", "B", "Y">> >>,
      << <<"2025-01-03 11:00", "B", "">> >>,
      << <<"today", "C", "Z">>, <<"2025-01-02 10:00", "A", "X">> >> }

\* the contents of the files of a folder of n files, by file id
Sources ==
    UNION { [{M3uFile(i).id : i \in 1..n} -> SourceBatches] : n \in 0..MaxFiles }

\* parse_m3u_lines as a deterministic parser that honours the hint: the rows
\* of the file whose key is neither in existing_keys nor the key of an
\* earlier row of the file
HonourHint(existing_keys, rows) == NonDuplicates(existing_keys, rows)

InitFixed ==
    /\ pc = "start"
    /\ a3 = "2025-01-01 09:00"
    /\ body \in SeqsUpTo(BodyRows, 1)
    /\ body0 = body
    /\ now = "2025-01-04 12:00"
    /\ cfg_max \in CfgMaxChoices
    /\ m3u_files = <<>>
    /\ idx = 0
    /\ existing_data = <<>>
    /\ new_entries = <<>>
    /\ seen_keys = {}
    /\ entries = <<>>
    /\ unread = <<>>
    /\ calls = <<>>
    /\ raised = ""
    /\ swallowed = <<>>
    /\ run = 1
    /\ body1 = <<>>
    /\ source \in Sources
    /\ pc2 = "idle"
    /\ entries2 = <<>>

\* a step of publish_history in which no external call fails, the folder
\* exists and lists the files of `source`, the link write of the second run
\* ends as that of the first, and nothing is recorded for files not taken
Unfailing(step) ==
    /\ step
    /\ calls' # <<>> => Last(calls').result # "error"
    /\ pc = "list_folders" => pc' = "list_files"
    /\ pc = "list_files" => {m3u_files'[i].id : i \in 1..Len(m3u_files')} = DOMAIN source
    /\ Cardinality(LinkResults(calls')) <= 1
    /\ \A i \in 1..Len(unread') : unread'[i] = <<>>

\* one pass of the loop body over a file of `source`
ProcessFileFixed ==
    /\ pc = "loop"
    /\ LoopContinues
    /\ LET id == m3u_files[idx + 1].id
       IN /\ calls' = Append(calls, Call("download", id, "ok"))
          /\ FileParsed(HonourHint(seen_keys, source[id]))
    /\ UNCHANGED <<a3, body, body0, now, cfg_max, m3u_files, existing_data,
                   entries, unread>>
    /\ UNCHANGED others

\* the first run has returned: publish_history runs again on the record as
\* the first run left it
RunAgain ==
    /\ pc = "done"
    /\ run = 1
    /\ run' = 2
    /\ body1' = body
    /\ body0' = body
    /\ pc' = "start"
    /\ m3u_files' = <<>>
    /\ idx' = 0
    /\ existing_data' = <<>>
    /\ new_entries' = <<>>
    /\ seen_keys' = {}
    /\ entries' = <<>>
    /\ unread' = <<>>
    /\ UNCHANGED <<a3, body, now, cfg_max, calls, raised, swallowed,
                   source, pc2, entries2>>

NextFixed ==
    \/ Unfailing(RecordLastRun)
    \/ Unfailing(ListFolders)
    \/ Unfailing(ListFiles)
    \/ Unfailing(NoFilesClear)
    \/ Unfailing(NoFilesWrite)
    \/ Unfailing(ReadExisting)
    \/ ProcessFileFixed
    \/ Unfailing(Reconcile)
    \/ Unfailing(WriteClear)
    \/ Unfailing(WriteSentinel)
    \/ Unfailing(WriteRows)
    \/ Unfailing(WriteLinks)
    \/ RunAgain

SpecFixed == InitFixed /\ [][NextFixed]_vars

\* the entry rows a completed run published: columns A-C of the body, and
\* none when the body is the sentinel row
PublishedRows(b) ==
    IF b = SentinelBody THEN <<>> ELSE [i \in 1..Len(b) |-> SubSeq(b[i], 1, 3)]

\* a row as its cells land in columns A-C
Padded(row) == [j \in 1..3 |-> IF j <= Len(row) THEN row[j] ELSE ""]

\* C20: the published body is a fixed point: a second run over the same
\* source files, with a deterministic parser that honours the hint and no
\* failing call, does not raise and hands the writer the entry rows the first
\* run published, in the same order.
C20_SecondRunPublishesSame ==
    run = 2 =>
        /\ pc # "raised"
        /\ Handed => [i \in 1..Len(entries) |-> Padded(entries[i])] = PublishedRows(body1)

====
